---- MODULE Spec2Model ----
(***************************************************************************)
(* The two RTSP client programs of the repository: the streaming client    *)
(* (main.go: connect, describe, setup, register the packet callback, play, *)
(* block) and the describe-only client (connect, describe, report,         *)
(* return).  The gortsplib client, the server and the JSON encoder are the *)
(* environment: each call returns one of the results its signature allows. *)
(***************************************************************************)
EXTENDS Integers, Sequences, FiniteSets, TLC

\* Packets the library hands to the callback in one run.
MaxPackets == 2

(***************************************************************************)
(* Inputs                                                                  *)
(***************************************************************************)

\* The programs: main.go and the describe-only variant.
Programs == {"stream", "describeOnly"}

\* URL arguments by their textual parts; the third has no scheme.
URLArgs ==
  { [scheme |-> "rtsp",  host |-> "cam:8554", path |-> "/live"],
    [scheme |-> "rtsps", host |-> "cam:322",  path |-> "/live"],
    [scheme |-> "",      host |-> "",         path |-> "cam/live"],
    [scheme |-> "http",  host |-> "cam",      path |-> "/live"] }

\* os.Args[0], as text of the same shape.
ProgName == [scheme |-> "", host |-> "", path |-> "rtsp-client"]

\* os.Args: the program name, then what the user typed (a second word is ignored).
ArgVectors ==
  {<<ProgName>>} \cup {<<ProgName, u>> : u \in URLArgs}
                 \cup {<<ProgName, u, u>> : u \in URLArgs}

\* base.ParseURL: the address, or an error for anything but rtsp and rtsps.
ParseURL(s) ==
  IF s.scheme \in {"rtsp", "rtsps"} /\ s.host # ""
    THEN [err |-> FALSE, url |-> [Scheme |-> s.scheme, Host |-> s.host, Path |-> s.path]]
    ELSE [err |-> TRUE,  url |-> [Scheme |-> "", Host |-> "", Path |-> ""]]

NilURL == [Scheme |-> "", Host |-> "", Path |-> ""]

\* The media streams a server may advertise.
Streams == {"video", "audio"}

\* desc *description.Session: nil until Describe has succeeded.
NilDesc == [isNil |-> TRUE, BaseURL |-> NilURL, Medias |-> <<>>]

\* What client.Describe may return for the parsed address.
DescribeResults(u) ==
  {[err |-> TRUE, desc |-> NilDesc]} \cup
  {[err |-> FALSE, desc |-> [isNil |-> FALSE, BaseURL |-> u, Medias |-> m]] :
      m \in {<<"video">>, <<"video", "audio">>}}

\* The RTP headers the library may deliver.
Packets ==
  { [Version |-> 2, SequenceNumber |-> 100, Timestamp |-> 9000, Extension |-> FALSE,
     Padding |-> FALSE, Marker |-> TRUE, PayloadType |-> 96, SSRC |-> 7,
     CSRC |-> <<>>, Extensions |-> <<>>, ExtensionProfile |-> 0],
    [Version |-> 2, SequenceNumber |-> 101, Timestamp |-> 12000, Extension |-> TRUE,
     Padding |-> TRUE, Marker |-> FALSE, PayloadType |-> 97, SSRC |-> 8,
     CSRC |-> <<7>>, Extensions |-> <<1>>, ExtensionProfile |-> 48862] }

(***************************************************************************)
(* The JSON encoder                                                        *)
(***************************************************************************)

\* The map built without its last key and with the timestamp under "ssrc".
PacketInfoWrongFields(pkt) ==
  [k \in {"version", "sequence_number", "timestamp", "extension", "padding", "marker",
          "payload_type", "ssrc", "csrc", "extensions"} |->
     CASE k = "version"           -> pkt.Version
       [] k = "sequence_number"   -> pkt.SequenceNumber
       [] k = "timestamp"         -> pkt.Timestamp
       [] k = "extension"         -> pkt.Extension
       [] k = "padding"           -> pkt.Padding
       [] k = "marker"            -> pkt.Marker
       [] k = "payload_type"      -> pkt.PayloadType
       [] k = "ssrc"              -> pkt.Timestamp
       [] k = "csrc"              -> pkt.CSRC
       [] k = "extensions"        -> pkt.Extensions]

\* The map the callback builds from the packet's header.
PacketInfo(pkt) ==
  [k \in {"version", "sequence_number", "timestamp", "extension", "padding", "marker",
          "payload_type", "ssrc", "csrc", "extensions", "extension_profile"} |->
     CASE k = "version"           -> pkt.Version
       [] k = "sequence_number"   -> pkt.SequenceNumber
       [] k = "timestamp"         -> pkt.Timestamp
       [] k = "extension"         -> pkt.Extension
       [] k = "padding"           -> pkt.Padding
       [] k = "marker"            -> pkt.Marker
       [] k = "payload_type"      -> pkt.PayloadType
       [] k = "ssrc"              -> pkt.SSRC
       [] k = "csrc"              -> pkt.CSRC
       [] k = "extensions"        -> pkt.Extensions
       [] k = "extension_profile" -> pkt.ExtensionProfile]

\* encoding/json writes a map's keys in sorted order.
KeyOrder ==
  <<"csrc", "extension", "extension_profile", "extensions", "marker", "padding",
    "payload_type", "sequence_number", "ssrc", "timestamp", "version">>

\* json.MarshalIndent of a map: one <<key, value>> member per key of the map, sorted.
MarshalIndent(m) ==
  LET keys == SelectSeq(KeyOrder, LAMBDA k : k \in DOMAIN m)
  IN  [i \in 1..Len(keys) |-> <<keys[i], m[keys[i]]>>]

\* json.MarshalIndent of the session description: null for a nil pointer.
MarshalDesc(d) ==
  IF d.isNil THEN <<>>
  ELSE << <<"BaseURL", d.BaseURL>>, <<"Medias", d.Medias>> >>

(***************************************************************************)
(* State                                                                   *)
(***************************************************************************)
VARIABLES
  prog,        \* which program runs
  osArgs,      \* os.Args
  pc,          \* the main routine's position
  exit,        \* "running", "fatal" (os.Exit(1)), "panic" or "returned"
  parsedURL,   \* parsedURL / url
  calls,       \* the session operations issued so far, in order
  ret,         \* each operation's result: "none", "ok" or "err"
  desc,        \* desc
  connOpen,    \* the client holds its connection
  deferred,    \* main's deferred calls
  closed,      \* times client.Close has run
  setupped,    \* the client's setupped medias
  handlers,    \* medias whose packets go to the registered callback
  regCount,    \* times OnPacketRTPAny has been called
  playing,     \* PLAY was accepted: the library delivers packets
  log,         \* the process log, one entry per log call
  cb,          \* per media, the callback invocation in progress
  deliveries   \* the callback invocations so far, in order of entry

vars == <<prog, osArgs, pc, exit, parsedURL, calls, ret, desc, connOpen, deferred,
          closed, setupped, handlers, regCount, playing, log, cb, deliveries>>

Text(msg)      == [kind |-> "text", msg |-> msg, body |-> <<>>]
DescBlock(b)   == [kind |-> "desc", msg |-> "", body |-> b]
PacketBlock(b) == [kind |-> "packet", msg |-> "", body |-> b]

Idle == [pc |-> "idle", json |-> <<>>]

Init ==
  /\ prog \in Programs
  /\ osArgs \in ArgVectors
  /\ pc = "args"
  /\ exit = "running"
  /\ parsedURL = NilURL
  /\ calls = <<>>
  /\ ret = [Connect |-> "none", Describe |-> "none", Report |-> "none",
            Setup |-> "none", Play |-> "none"]
  /\ desc = NilDesc
  /\ connOpen = FALSE
  /\ deferred = <<>>
  /\ closed = 0
  /\ setupped = {}
  /\ handlers = {}
  /\ regCount = 0
  /\ playing = FALSE
  /\ log = <<>>
  /\ cb = [s \in Streams |-> Idle]
  /\ deliveries = <<>>

clientVars   == <<connOpen, deferred, closed, setupped, handlers, regCount, playing>>
callbackVars == <<cb, deliveries>>
inputVars    == <<prog, osArgs>>

\* log.Fatalf / log.Fatalln: the line, then os.Exit(1); deferred calls do not run.
Fatal(msg) ==
  /\ log' = Append(log, Text(msg))
  /\ exit' = "fatal"
  /\ pc' = "exited"

\* log.Printf / log.Println, then on to the next statement.
Printf(msg, next) ==
  /\ log' = Append(log, Text(msg))
  /\ pc' = next
  /\ UNCHANGED exit

Goto(next) ==
  /\ pc' = next
  /\ UNCHANGED <<log, exit>>

(***************************************************************************)
(* The main routine                                                        *)
(***************************************************************************)

\* The argument check done with the wrong count.
ArgsMissingOffByOne == Len(osArgs) < 1

\* len(os.Args) < 2
ArgsMissing == Len(osArgs) < 2

\* if len(os.Args) < 2 { log.Fatalln("Usage:", ...) }
CheckArgs ==
  /\ pc = "args" /\ exit = "running"
  /\ IF ArgsMissing THEN Fatal("Usage") ELSE Goto("parse")
  /\ UNCHANGED <<inputVars, parsedURL, calls, ret, desc, clientVars, callbackVars>>

\* The parse error logged and not fatal.
ParseFailedContinue == Printf("Cannot parse RTSP URL", "start")

\* A failed base.ParseURL: log.Fatalf.
ParseFailed == Fatal("Cannot parse RTSP URL")

\* base.ParseURL(os.Args[1]); fatal on error; else the start line and the client value.
ParseArg ==
  /\ pc = "parse" /\ exit = "running"
  /\ LET r == ParseURL(osArgs[2]) IN
       IF r.err
         THEN ParseFailed /\ UNCHANGED parsedURL
         ELSE Printf("Starting RTSP client for URL", "start") /\ parsedURL' = r.url
  /\ UNCHANGED <<inputVars, calls, ret, desc, clientVars, callbackVars>>

\* The connection error logged and not fatal.
StartFailedContinue == Printf("Error connecting to server", "describe")

\* A failed client.Start: log.Fatalf.
StartFailed == Fatal("Error connecting to server")

\* client.Start(scheme, host); fatal on error; else defer client.Close().
Start ==
  /\ pc = "start" /\ exit = "running"
  /\ calls' = Append(calls, "Connect")
  /\ \E ok \in BOOLEAN :
       IF ok
         THEN /\ Goto("describe")
              /\ ret' = [ret EXCEPT !.Connect = "ok"]
              /\ connOpen' = TRUE
              /\ deferred' = <<"Close">> \o deferred
         ELSE /\ StartFailed
              /\ ret' = [ret EXCEPT !.Connect = "err"]
              /\ UNCHANGED <<connOpen, deferred>>
  /\ UNCHANGED <<inputVars, parsedURL, desc, closed, setupped, handlers, regCount,
                 playing, callbackVars>>

\* The Describe error logged and not fatal.
DescribeFailedContinue == Printf("Error during DESCRIBE", "report")

\* A failed client.Describe: log.Fatalf.
DescribeFailed == Fatal("Error during DESCRIBE")

\* desc, _, err := client.Describe(parsedURL); fatal on error.
Describe ==
  /\ pc = "describe" /\ exit = "running"
  /\ calls' = Append(calls, "Describe")
  /\ \E r \in DescribeResults(parsedURL) :
       /\ desc' = r.desc
       /\ IF r.err
            THEN DescribeFailed /\ ret' = [ret EXCEPT !.Describe = "err"]
            ELSE Goto("report") /\ ret' = [ret EXCEPT !.Describe = "ok"]
  /\ UNCHANGED <<inputVars, parsedURL, clientVars, callbackVars>>

\* The streaming program going from the reporter straight to Play.
AfterReportSkipSetup == IF prog = "stream" THEN "play" ELSE "return"

\* Where the main routine goes after the description reporter.
AfterReport == IF prog = "stream" THEN "setup" ELSE "return"

\* The reporter without its else: the block is logged after the error line too.
ReportFailedNoElse ==
  log' = log \o <<Text("Error marshaling SDP description to JSON"),
                  Text("SDP in JSON:"), DescBlock(MarshalDesc(desc))>>

\* json.MarshalIndent(desc) failed: log.Printf, and nothing else.
ReportFailed == log' = Append(log, Text("Error marshaling SDP description to JSON"))

\* The reporter with its serialization error made fatal.
ReportDescFatal ==
  /\ pc = "report" /\ exit = "running"
  /\ \E ok \in BOOLEAN :
       IF ok
         THEN /\ log' = log \o <<Text("SDP in JSON:"), DescBlock(MarshalDesc(desc))>>
              /\ ret' = [ret EXCEPT !.Report = "ok"]
              /\ pc' = AfterReport
              /\ UNCHANGED exit
         ELSE /\ Fatal("Error marshaling SDP description to JSON")
              /\ ret' = [ret EXCEPT !.Report = "err"]
  /\ UNCHANGED <<inputVars, parsedURL, calls, desc, clientVars, callbackVars>>

\* json.MarshalIndent(desc): the error line, or "SDP in JSON:" and the block.
ReportDesc ==
  /\ pc = "report" /\ exit = "running"
  /\ \E ok \in BOOLEAN :
       IF ok
         THEN /\ log' = log \o <<Text("SDP in JSON:"), DescBlock(MarshalDesc(desc))>>
              /\ ret' = [ret EXCEPT !.Report = "ok"]
         ELSE /\ ReportFailed
              /\ ret' = [ret EXCEPT !.Report = "err"]
  /\ pc' = AfterReport
  /\ UNCHANGED <<inputVars, exit, parsedURL, calls, desc, clientVars, callbackVars>>

\* The return from main without the deferred client.Close().
ReturnWithoutClose ==
  /\ pc = "return" /\ exit = "running"
  /\ pc' = "exited"
  /\ exit' = "returned"
  /\ UNCHANGED <<inputVars, parsedURL, calls, ret, desc, clientVars, log, callbackVars>>

\* The describe-only program returns from main: the deferred client.Close() runs.
Return ==
  /\ pc = "return" /\ exit = "running"
  /\ pc' = "exited"
  /\ exit' = "returned"
  /\ closed' = closed + Len(deferred)
  /\ connOpen' = (connOpen /\ deferred = <<>>)
  /\ deferred' = <<>>
  /\ UNCHANGED <<inputVars, parsedURL, calls, ret, desc, setupped, handlers, regCount,
                 playing, log, callbackVars>>

\* desc.BaseURL with desc nil: a nil pointer dereference. The panic unwinds main,
\* running its deferred calls, and the process exits.
Panic ==
  /\ log' = Append(log, Text("panic: nil pointer dereference"))
  /\ exit' = "panic"
  /\ pc' = "exited"
  /\ closed' = closed + Len(deferred)
  /\ connOpen' = (connOpen /\ deferred = <<>>)
  /\ deferred' = <<>>

\* The Setup error made fatal.
SetupFailedFatal == Fatal("Error setting up medias")

\* A failed client.SetupAll: log.Printf, and on.
SetupFailed == Printf("Error setting up medias", "register")

\* Setup cutting the description's media list down to the medias it set up.
SetupTrimsDesc ==
  /\ pc = "setup" /\ exit = "running"
  /\ ~desc.isNil
  /\ calls' = Append(calls, "Setup")
  /\ \E n \in 0..Len(desc.Medias) :
       /\ setupped' = {desc.Medias[i] : i \in 1..n}
       /\ desc' = [desc EXCEPT !.Medias = SubSeq(desc.Medias, 1, n)]
       /\ IF n < Len(desc.Medias)
            THEN SetupFailed /\ ret' = [ret EXCEPT !.Setup = "err"]
            ELSE Goto("register") /\ ret' = [ret EXCEPT !.Setup = "ok"]
  /\ UNCHANGED <<inputVars, parsedURL, connOpen, deferred, closed, handlers, regCount,
                 playing, callbackVars>>

\* client.SetupAll(desc.BaseURL, desc.Medias): the medias are set up in order and
\* the first failure is returned.
Setup ==
  /\ pc = "setup" /\ exit = "running"
  /\ IF desc.isNil
       THEN Panic /\ UNCHANGED <<calls, ret, setupped>>
       ELSE /\ calls' = Append(calls, "Setup")
            /\ \E n \in 0..Len(desc.Medias) :
                 /\ setupped' = {desc.Medias[i] : i \in 1..n}
                 /\ IF n < Len(desc.Medias)
                      THEN SetupFailed /\ ret' = [ret EXCEPT !.Setup = "err"]
                      ELSE Goto("register") /\ ret' = [ret EXCEPT !.Setup = "ok"]
            /\ UNCHANGED <<connOpen, deferred, closed>>
  /\ UNCHANGED <<inputVars, parsedURL, desc, handlers, regCount, playing, callbackVars>>

\* The callback attached to the first media only.
RegisteredFirstMedia == {m \in setupped : m = desc.Medias[1]}

\* The medias OnPacketRTPAny attaches the callback to: every setupped media.
RegisteredMedias == setupped

\* client.OnPacketRTPAny(func(medi, forma, pkt) {...})
Register ==
  /\ pc = "register" /\ exit = "running"
  /\ handlers' = RegisteredMedias
  /\ regCount' = regCount + 1
  /\ Goto("play")
  /\ UNCHANGED <<inputVars, parsedURL, calls, ret, desc, connOpen, deferred, closed,
                 setupped, playing, callbackVars>>

\* A failed client.Play: log.Printf, and on.
PlayFailed == Printf("Error during PLAY", "streaming")

\* _, err = client.Play(nil); the server can accept PLAY only with a media set up.
Play ==
  /\ pc = "play" /\ exit = "running"
  /\ calls' = Append(calls, "Play")
  /\ \E ok \in BOOLEAN :
       /\ ok => setupped # {}
       /\ IF ok
            THEN Goto("streaming") /\ ret' = [ret EXCEPT !.Play = "ok"] /\ playing' = TRUE
            ELSE PlayFailed /\ ret' = [ret EXCEPT !.Play = "err"] /\ UNCHANGED playing
  /\ UNCHANGED <<inputVars, parsedURL, desc, connOpen, deferred, closed, setupped,
                 handlers, regCount, callbackVars>>

\* The last line logged and main returning instead of waiting.
BlockThenReturn ==
  /\ pc = "streaming" /\ exit = "running"
  /\ Printf("Streaming... Press Ctrl+C to exit.", "return")
  /\ UNCHANGED <<inputVars, parsedURL, calls, ret, desc, clientVars, callbackVars>>

\* log.Println("Streaming... Press Ctrl+C to exit."); select {}
Block ==
  /\ pc = "streaming" /\ exit = "running"
  /\ Printf("Streaming... Press Ctrl+C to exit.", "blocked")
  /\ UNCHANGED <<inputVars, parsedURL, calls, ret, desc, clientVars, callbackVars>>

(***************************************************************************)
(* The packet callback, run by the library's reader of each media          *)
(***************************************************************************)

\* The packet's serialization error made fatal.
PacketMarshalFatal(s) ==
  /\ Fatal("Error marshaling RTP packet to JSON")
  /\ UNCHANGED cb

\* json.MarshalIndent(packetInfo) failed: log.Printf and return.
PacketMarshalFailed(s) ==
  /\ log' = Append(log, Text("Error marshaling RTP packet to JSON"))
  /\ UNCHANGED <<cb, exit, pc>>

\* The callback keeping its map between invocations and not refreshing the sequence
\* number: the block carries the one of the packet before.
PacketJSONStale(pkt) ==
  LET m == PacketInfo(pkt)
      stale == IF deliveries = <<>> THEN pkt ELSE deliveries[Len(deliveries)].pkt
  IN  MarshalIndent([k \in DOMAIN m |->
                       IF k = "sequence_number" THEN stale.SequenceNumber ELSE m[k]])

\* packetInfo := map[string]any{...}; packetJSON := json.MarshalIndent(packetInfo):
\* both local to the invocation.
PacketJSON(pkt) == MarshalIndent(PacketInfo(pkt))

\* The callback up to its first log line: build packetInfo, marshal it, then either
\* the error line and return, or "Received RTP packet:".
OnPacketRTP(s, pkt) ==
  /\ exit = "running" /\ playing /\ s \in handlers
  /\ cb[s].pc = "idle"
  /\ Len(deliveries) < MaxPackets
  /\ \E ok \in BOOLEAN :
       /\ deliveries' = Append(deliveries, [stream |-> s, pkt |-> pkt, ok |-> ok])
       /\ IF ok
            THEN /\ log' = Append(log, Text("Received RTP packet:"))
                 /\ cb' = [cb EXCEPT ![s] = [pc |-> "json", json |-> PacketJSON(pkt)]]
                 /\ UNCHANGED <<exit, pc>>
            ELSE PacketMarshalFailed(s)
  /\ UNCHANGED <<inputVars, parsedURL, calls, ret, desc, clientVars>>

\* log.Println(string(packetJSON)), and the callback returns.
PrintPacket(s) ==
  /\ exit = "running"
  /\ cb[s].pc = "json"
  /\ log' = Append(log, PacketBlock(cb[s].json))
  /\ cb' = [cb EXCEPT ![s] = Idle]
  /\ UNCHANGED <<inputVars, pc, exit, parsedURL, calls, ret, desc, clientVars, deliveries>>

Callback == \E s \in Streams : (\E pkt \in Packets : OnPacketRTP(s, pkt)) \/ PrintPacket(s)

Main ==
  \/ CheckArgs
  \/ ParseArg
  \/ Start
  \/ Describe
  \/ ReportDesc
  \/ Return
  \/ Setup
  \/ Register
  \/ Play
  \/ Block

Next == Main \/ Callback

Spec == Init /\ [][Next]_vars

\* The main goroutine runs whenever it can: every call it makes returns (the client's
\* read and write timeouts), and a callback that has begun runs to its end.
FairSpec == Spec /\ WF_vars(Main) /\ \A s \in Streams : WF_vars(PrintPacket(s))

(***************************************************************************)
(* Properties                                                              *)
(***************************************************************************)

Issued(op) == \E i \in DOMAIN calls : calls[i] = op

Blocks(kind) == {i \in DOMAIN log : log[i].kind = kind}

Lines(msg) == {i \in DOMAIN log : log[i].kind = "text" /\ log[i].msg = msg}

SessionOrder == <<"Connect", "Describe", "Setup", "Play">>

\* C1 as stated: a Describe error after a successful Connect never ends the process;
\* the program goes on.
C1_DescribeErrorNotFatal ==
  (prog = "stream" /\ ret.Connect = "ok" /\ ret.Describe = "err") => exit = "running"

\* C1 amended: a Describe error after a successful Connect is fatal: the error is the
\* last line logged, the process has exited with failure, and Setup, the callback
\* registration and Play never happen.
C1_DescribeErrorFatal ==
  (ret.Connect = "ok" /\ ret.Describe = "err") =>
     /\ exit = "fatal" /\ pc = "exited"
     /\ log[Len(log)] = Text("Error during DESCRIBE")
     /\ calls = <<"Connect", "Describe">>
     /\ regCount = 0 /\ ~playing
     /\ Blocks("desc") = {} /\ Blocks("packet") = {}

C1_Witness == prog = "stream" /\ ret.Connect = "ok" /\ ret.Describe = "err"

\* No packet block precedes a description block in the log.
NoPacketBeforeDesc ==
  \A i \in Blocks("packet") : \A j \in Blocks("desc") : j < i

\* C2 as stated: with a well-formed URL and a reachable server (Connect succeeded),
\* exactly one description block is emitted, before any packet block: once the
\* reporter's place in the program is passed, the log holds exactly one.
C2_ExactlyOneDescription ==
  (prog = "stream" /\ ret.Connect = "ok") =>
     /\ Cardinality(Blocks("desc")) <= 1
     /\ NoPacketBeforeDesc
     /\ (pc \notin {"describe", "report"} => Cardinality(Blocks("desc")) = 1)

\* C2 amended: at most one description block is ever emitted and no packet block
\* precedes it; it is emitted exactly when Describe succeeded and the description
\* serialized; and no packet block is emitted before the reporter has run.
C2_AtMostOneDescriptionFirst ==
  /\ Cardinality(Blocks("desc")) <= 1
  /\ NoPacketBeforeDesc
  /\ (Cardinality(Blocks("desc")) = 1 <=> ret.Report = "ok")
  /\ (ret.Report = "ok" => ret.Describe = "ok")
  /\ (ret.Report = "none" => Blocks("packet") = {} /\ deliveries = <<>>)

C2_Witness ==
  /\ prog = "stream"
  /\ Cardinality(Blocks("desc")) = 1
  /\ Cardinality(Blocks("packet")) >= 2

\* The program state of the specification's state machine, as a rank.
Rank ==
  CASE pc \in {"args", "parse", "start"} -> 0   \* Start
    [] pc = "describe"                  -> 1   \* Connected
    [] pc \in {"report", "setup", "return"} -> 2   \* Described
    [] pc \in {"register", "play"}      -> 3   \* SetUp
    [] pc = "streaming"                 -> 4   \* Playing
    [] pc = "blocked"                   -> 5   \* blocked
    [] OTHER                            -> 6   \* terminated

\* C3: the session operations are issued in the order Connect, Describe, Setup, Play,
\* each at most once and none before the one before it has returned; the program state
\* only moves one step forward along Start, Connected, Described, SetUp, Playing,
\* blocked, or to termination.
C3_StrictOrder ==
  /\ [](/\ Len(calls) <= Len(SessionOrder)
        /\ \A i \in DOMAIN calls : calls[i] = SessionOrder[i]
        /\ \A i \in DOMAIN calls : i > 1 => ret[calls[i - 1]] # "none"
        /\ (pc = "blocked" => calls = SessionOrder))
  /\ [][Rank' = Rank \/ Rank' = Rank + 1 \/ pc' = "exited"]_vars

C3_Witness == pc = "blocked" /\ calls = SessionOrder /\ ret.Setup = "ok" /\ ret.Play = "ok"

\* C4: when Connect returns an error the process terminates at once: Describe, Setup
\* and Play are never issued, the callback is never registered and no description or
\* packet block is emitted.
C4_ConnectFailureFatal ==
  ret.Connect = "err" =>
     /\ exit = "fatal" /\ pc = "exited"
     /\ calls = <<"Connect">>
     /\ regCount = 0 /\ handlers = {} /\ deliveries = <<>>
     /\ Blocks("desc") = {} /\ Blocks("packet") = {}
     /\ log[Len(log)] = Text("Error connecting to server")

C4_Witness == ret.Connect = "err" /\ prog = "stream"

\* C5: with a malformed URL argument (no rtsp or rtsps scheme) the program terminates
\* with failure before any network connection: Connect and every later operation are
\* never issued.
C5_MalformedURLNoNetwork ==
  (Len(osArgs) >= 2 /\ osArgs[2].scheme \notin {"rtsp", "rtsps"}) =>
     /\ calls = <<>> /\ ~connOpen /\ regCount = 0
     /\ pc \in {"args", "parse", "exited"}
     /\ (pc = "exited" => exit = "fatal" /\ log = <<Text("Cannot parse RTSP URL")>>)

C5_Witness ==
  /\ Len(osArgs) >= 2 /\ osArgs[2].scheme = ""
  /\ pc = "exited" /\ exit = "fatal"

\* C6: with no command-line argument the program logs the usage line and terminates
\* with failure; URL parsing, Connect, Describe, Setup and Play are never reached.
C6_NoArgsUsage ==
  Len(osArgs) < 2 =>
     /\ calls = <<>> /\ ~connOpen /\ parsedURL = NilURL
     /\ pc \in {"args", "exited"}
     /\ (pc = "exited" => exit = "fatal" /\ log = <<Text("Usage")>>)

C6_Witness == Len(osArgs) < 2 /\ pc = "exited" /\ log = <<Text("Usage")>>

\* C7: Setup and Play failures are logged and not fatal: in the streaming program,
\* once Describe has succeeded the process never terminates, and it goes on to register
\* the callback, issue Play and reach the blocked state, whatever Setup and Play return.
C7_SetupPlayFailuresNonFatal ==
  /\ []((prog = "stream" /\ ret.Describe = "ok") => (exit = "running" /\ pc # "exited"))
  /\ []((ret.Setup = "err" => Lines("Error setting up medias") # {})
        /\ (ret.Play = "err" => Lines("Error during PLAY") # {}))
  /\ ((prog = "stream" /\ ret.Describe = "ok")
        ~> (pc = "blocked" /\ regCount = 1 /\ Issued("Play") /\ exit = "running"))

C7_Witness ==
  /\ pc = "blocked" /\ exit = "running"
  /\ ret.Setup = "err" /\ ret.Play = "err" /\ regCount = 1

\* C8: the packet callback is registered exactly once, after Setup and before Play, and
\* as one handler for every set-up media: once registered, every set-up media's packets
\* reach it, and every invocation is of a set-up media.
C8_RegisteredOnceBeforePlay ==
  /\ regCount <= 1
  /\ (regCount = 1 => Issued("Setup"))
  /\ (Issued("Play") => regCount = 1)
  /\ (pc = "play" => regCount = 1 /\ ~Issued("Play"))
  /\ (regCount = 1 => handlers = setupped)
  /\ \A i \in DOMAIN deliveries : regCount = 1 /\ deliveries[i].stream \in setupped
  /\ (playing /\ exit = "running" /\ Len(deliveries) < MaxPackets) =>
        \A s \in setupped :
           cb[s].pc = "idle" => ENABLED (\E pkt \in Packets : OnPacketRTP(s, pkt))

C8_Witness ==
  /\ regCount = 1 /\ Issued("Play")
  /\ \A s \in Streams : \E i \in DOMAIN deliveries : deliveries[i].stream = s

\* C9 as stated: on a fatal exit after Connect has succeeded, the deferred client.Close
\* has run before the process ends, and the connection is released.
C9_CloseRunsOnFatalExit ==
  (exit = "fatal" /\ ret.Connect = "ok") => (closed >= 1 /\ ~connOpen)

\* Packets delivered so far whose serialization succeeded (ok) or failed (~ok).
Delivered(p, ok) == {i \in DOMAIN deliveries : deliveries[i].pkt = p /\ deliveries[i].ok = ok}

\* The blocks of packet p: in the log, or marshalled and about to be logged.
Emitted(p) ==
  Cardinality({i \in Blocks("packet") : log[i].body = MarshalIndent(PacketInfo(p))})
  + Cardinality({s \in Streams : cb[s].pc = "json" /\ cb[s].json = MarshalIndent(PacketInfo(p))})

\* C10: a packet's serialization failure stays with that packet: one error line is
\* logged for it and no block, the process keeps running, and every other packet,
\* earlier or later, has exactly its own block.
C10_PacketFailureScoped ==
  /\ (deliveries # <<>> => exit = "running" /\ pc \in {"streaming", "blocked"})
  /\ Cardinality(Lines("Error marshaling RTP packet to JSON"))
       = Cardinality({i \in DOMAIN deliveries : ~deliveries[i].ok})
  /\ \A p \in Packets : Emitted(p) = Cardinality(Delivered(p, TRUE))
  /\ Cardinality(Lines("Received RTP packet:"))
       = Cardinality({i \in DOMAIN deliveries : deliveries[i].ok})

C10_Witness ==
  \E i, j \in DOMAIN deliveries :
     /\ i < j /\ ~deliveries[i].ok /\ deliveries[j].ok
     /\ deliveries[i].pkt # deliveries[j].pkt
     /\ \E e \in Lines("Error marshaling RTP packet to JSON") : \E b \in Blocks("packet") :
          e < b /\ log[b].body = MarshalIndent(PacketInfo(deliveries[j].pkt))

\* The eleven keys of a packet block.
ElevenKeys ==
  {"version", "sequence_number", "timestamp", "extension", "padding", "marker",
   "payload_type", "ssrc", "csrc", "extensions", "extension_profile"}

\* The header field of packet p that belongs under key k.
HeaderField(p, k) ==
  CASE k = "version"           -> p.Version
    [] k = "sequence_number"   -> p.SequenceNumber
    [] k = "timestamp"         -> p.Timestamp
    [] k = "extension"         -> p.Extension
    [] k = "padding"           -> p.Padding
    [] k = "marker"            -> p.Marker
    [] k = "payload_type"      -> p.PayloadType
    [] k = "ssrc"              -> p.SSRC
    [] k = "csrc"              -> p.CSRC
    [] k = "extensions"        -> p.Extensions
    [] k = "extension_profile" -> p.ExtensionProfile

\* Block b has each of the eleven keys once and nothing else, each with p's field.
IsBlockOf(b, p) ==
  /\ Len(b) = Cardinality(ElevenKeys)
  /\ {b[n][1] : n \in DOMAIN b} = ElevenKeys
  /\ \A n \in DOMAIN b : b[n][2] = HeaderField(p, b[n][1])

\* The last packet handed to the callback of media s.
LastPacketOf(s) ==
  LET own == {i \in DOMAIN deliveries : deliveries[i].stream = s}
  IN  deliveries[CHOOSE i \in own : \A j \in own : j <= i].pkt

\* C11: every emitted packet block has exactly the eleven keys version,
\* sequence_number, timestamp, extension, padding, marker, payload_type, ssrc, csrc,
\* extensions and extension_profile, each holding that header field of the packet its
\* callback invocation was given.
C11_ElevenKeys ==
  /\ \A i \in Blocks("packet") :
        \E d \in DOMAIN deliveries : deliveries[d].ok /\ IsBlockOf(log[i].body, deliveries[d].pkt)
  /\ \A s \in Streams : cb[s].pc = "json" => IsBlockOf(cb[s].json, LastPacketOf(s))

C11_Witness ==
  \E i, j \in Blocks("packet") :
     /\ i # j /\ log[i].body # log[j].body
     /\ Len(log[i].body) = 11 /\ Len(log[j].body) = 11

\* C12: callback invocations keep no state: the block an invocation produces is a
\* function of its packet alone (the same block whatever was delivered before, on
\* this media or another), and an invocation changes nothing but the log and its own
\* media's invocation in progress.
C12_Stateless ==
  [][\A s \in Streams :
       /\ (cb[s].pc = "idle" /\ cb'[s].pc = "json") =>
             /\ IsBlockOf(cb'[s].json, deliveries'[Len(deliveries')].pkt)
             /\ \A i \in DOMAIN deliveries :
                   deliveries[i].pkt # deliveries'[Len(deliveries')].pkt =>
                      ~IsBlockOf(cb'[s].json, deliveries[i].pkt)
             /\ \A o \in Streams \ {s} : cb'[o] = cb[o]
             /\ UNCHANGED <<pc, exit, desc, calls, ret, clientVars>>
       /\ (cb[s].pc = "json" /\ cb'[s].pc = "idle") =>
             /\ log' = Append(log, PacketBlock(cb[s].json))
             /\ \A o \in Streams \ {s} : cb'[o] = cb[o]]_vars

C12_Witness ==
  /\ Len(deliveries) = 2
  /\ deliveries[1].ok /\ deliveries[2].ok
  /\ deliveries[1].pkt # deliveries[2].pkt
  /\ \E i, j \in Blocks("packet") :
        /\ i < j
        /\ IsBlockOf(log[i].body, deliveries[1].pkt)
        /\ IsBlockOf(log[j].body, deliveries[2].pkt)

\* The entries only the packet callback writes.
CallbackEntry(e) ==
  \/ e.kind = "packet"
  \/ e.kind = "text" /\ e.msg \in {"Received RTP packet:", "Error marshaling RTP packet to JSON"}

\* C13: once Play has been attempted the program only logs its last line and blocks:
\* it never terminates, never issues another operation, never stops playback and never
\* releases the connection; from the blocked state the only events are packet callback
\* invocations.
C13_BlocksForever ==
  /\ [](Issued("Play") => (exit = "running" /\ pc \in {"streaming", "blocked"}
                           /\ connOpen /\ closed = 0 /\ deferred = <<"Close">>))
  /\ [][Issued("Play") =>
          /\ UNCHANGED <<calls, ret, connOpen, closed, deferred, playing, handlers,
                         setupped, regCount, desc, exit>>
          /\ (pc = "blocked" =>
                /\ pc' = "blocked"
                /\ Len(log') = Len(log) + 1
                /\ SubSeq(log', 1, Len(log)) = log
                /\ CallbackEntry(log'[Len(log')]))]_vars

C13_Witness ==
  /\ pc = "blocked" /\ exit = "running"
  /\ \E i \in Lines("Streaming... Press Ctrl+C to exit.") : \E j \in Blocks("packet") : i < j

\* The lines of the log written by the description reporter.
ReporterRuns == Lines("SDP in JSON:") \cup Lines("Error marshaling SDP description to JSON")

\* C14: the description reporter runs once at most and only after a successful
\* Describe; when the description fails to serialize, the error is logged, no
\* description block is emitted, the process goes on, and the streaming program still
\* issues Setup, registers the callback and issues Play.
C14_ReporterOnceNonFatal ==
  /\ [](/\ Cardinality(ReporterRuns) <= 1
        /\ (ReporterRuns # {} <=> ret.Report # "none")
        /\ (ret.Report # "none" => ret.Describe = "ok" /\ ~desc.isNil)
        /\ (pc \in {"setup", "return"} => ret.Report # "none")
        /\ (ret.Report = "err" =>
              /\ exit # "fatal"
              /\ Blocks("desc") = {}
              /\ Lines("Error marshaling SDP description to JSON") # {}
              /\ Lines("SDP in JSON:") = {}))
  /\ ((prog = "stream" /\ ret.Report = "err")
        ~> (Issued("Setup") /\ regCount = 1 /\ Issued("Play") /\ pc = "blocked"))

C14_Witness ==
  /\ prog = "stream" /\ ret.Report = "err"
  /\ pc = "blocked" /\ Issued("Play") /\ ret.Play = "ok"

\* C15: there is at most one session description in a run: Describe is issued once at
\* most, and the description it produced is never replaced or changed afterwards
\* (the reporter and Setup only read it).
C15_OneDescription ==
  /\ [](Cardinality({i \in DOMAIN calls : calls[i] = "Describe"}) <= 1)
  /\ [](desc.isNil <=> ret.Describe # "ok")
  /\ [][ret.Describe # "none" => desc' = desc]_vars

C15_Witness ==
  /\ pc = "blocked" /\ ~desc.isNil /\ Len(desc.Medias) = 2
  /\ ret.Setup = "err" /\ ret.Report = "ok"

\* C16: Setup is never given an unset description: whenever the program is at Setup or
\* has issued it, Describe has succeeded in this run and desc is the description it
\* returned, whose medias are the only ones set up; the run never ends in a nil
\* dereference.
C16_SetupHasDescription ==
  /\ (pc = "setup" \/ Issued("Setup")) =>
        /\ ret.Describe = "ok" /\ ~desc.isNil
        /\ desc.BaseURL = parsedURL
        /\ setupped \subseteq {desc.Medias[i] : i \in DOMAIN desc.Medias}
  /\ exit # "panic"

C16_Witness == Issued("Setup") /\ ~desc.isNil /\ setupped = Streams

\* C17 as stated: every "Received RTP packet:" line in the log is immediately followed
\* by a packet block (that packet's), or is the last line so far: no line of another
\* packet or of the main routine comes between the two.
C17_HeaderAndBlockTogether ==
  \A i \in Lines("Received RTP packet:") : i = Len(log) \/ log[i + 1].kind = "packet"

====
